---- MODULE Spec2Model ----
(***************************************************************************)
(* Model of src/models/utils.py: the two early-stopping monitors           *)
(* (EarlyStopping, EarlyStoppingUnlearning with its save_checkpoint) and   *)
(* the validation loop.                                                    *)
(*                                                                         *)
(* Numbers.  Losses, scores and min_delta are Python floats in the source; *)
(* they are modelled as integers on a fixed grid (a loss of k stands for   *)
(* k grid steps), which keeps the order, the subtraction and the negation  *)
(* the monitors use.  Quotients (total / count) are kept as exact          *)
(* fractions [num, den].  A metric result may be NaN: it is a record       *)
(* [nan, num, den].  The val_loss handed to a monitor is an ordered        *)
(* (non-NaN) number.                                                       *)
(*                                                                         *)
(* The three units share no state; a behaviour drives one of them (unit).  *)
(***************************************************************************)
EXTENDS Integers, Sequences, FiniteSets

\* ---------------------------------------------------------------- bounds
MaxCalls == 4
MaxLoss == 1
MaxPatience == 2
MaxDelta == 1
MaxSamples == 2

Losses == (0 - MaxLoss)..MaxLoss
Patiences == 1..MaxPatience
MinDeltas == 0..MaxDelta

\* Python's None, and a present value v, for an attribute that starts as None.
None == <<>>
Some(v) == <<v>>
Val(o) == o[1]

VARIABLES
  unit,        \* which unit this behaviour drives
  es,          \* the EarlyStopping object's attributes
  es_calls,    \* log of EarlyStopping.__call__: its argument and the best_loss it found
  esu,         \* the EarlyStoppingUnlearning object's attributes
  esu_calls,   \* log of EarlyStoppingUnlearning.__call__: its val_loss and the best_score it found
  esu_ret,     \* how the last EarlyStoppingUnlearning.__call__ went: called save_checkpoint? raised?
  PTHS,        \* the PTH argument: for each component, whether its path is non-empty
  checkpoint,  \* the last save_checkpoint call: None, or what it attempted and saved
  validation_pc,  \* where validation() is: "loop", "returned" or "raised"
  one_hot,     \* validation's one_hot argument
  out_channels,   \* validation's out_channels argument
  loader,      \* the batches the loader has yielded so far, each a sequence of samples
  validation_val_loss,  \* validation's local val_loss
  num_samples, \* validation's local num_samples
  num_steps,   \* validation's local num_steps
  result_dict, \* validation's local result_dict, in insertion order: <<key, list>> pairs
  storage,     \* the np.save calls made so far: <<file name, value>>
  writer,      \* the writer.add_scalars calls made so far: <<category, mapping>>
  ret          \* what validation() returned: None, or the value

es_vars == <<es, es_calls>>
esu_vars == <<esu, esu_calls, esu_ret, PTHS, checkpoint>>
val_vars == <<validation_pc, one_hot, out_channels, loader, validation_val_loss, num_samples,
              num_steps, result_dict, storage, writer, ret>>
vars == <<unit, es_vars, esu_vars, val_vars>>

Units == {"EarlyStopping", "EarlyStoppingUnlearning", "validation"}

\* ------------------------------------------------- EarlyStopping (simple)

\* EarlyStopping.__init__
ES_init(patience, min_delta) ==
  [patience |-> patience, min_delta |-> min_delta, counter |-> 0,
   best_loss |-> None, early_stop |-> FALSE]

\* line 30: elif self.best_loss - val_loss > self.min_delta
ES_Improved(best_loss, val_loss, min_delta) == best_loss - val_loss > min_delta

\* ES_NotImproved with <= written for <
ES_NotImproved_le(best_loss, val_loss, min_delta) == best_loss - val_loss <= min_delta

\* line 32: elif self.best_loss - val_loss < self.min_delta
ES_NotImproved(best_loss, val_loss, min_delta) == best_loss - val_loss < min_delta

\* Exhausted with > written for >=
Exhausted_gt(counter, patience) == counter > patience

\* lines 35 and 177: if self.counter >= self.patience
Exhausted(counter, patience) == counter >= patience

\* ES_OnImproved that also resets the counter
ES_OnImproved_reset(self, val_loss) ==
  [self EXCEPT !.best_loss = Some(val_loss), !.counter = 0]

\* line 31: self.best_loss = val_loss (counter and early_stop are not touched)
ES_OnImproved(self, val_loss) == [self EXCEPT !.best_loss = Some(val_loss)]

\* lines 33-37: self.counter += 1; if self.counter >= self.patience: self.early_stop = True
ES_OnNotImproved(self) ==
  [self EXCEPT !.counter = self.counter + 1,
               !.early_stop = IF Exhausted(self.counter + 1, self.patience)
                              THEN TRUE ELSE self.early_stop]

\* EarlyStopping.__call__: the attributes after the call
ES_call(self, val_loss) ==
  IF self.best_loss = None
    THEN [self EXCEPT !.best_loss = Some(val_loss)]
  ELSE IF ES_Improved(Val(self.best_loss), val_loss, self.min_delta)
    THEN ES_OnImproved(self, val_loss)
  ELSE IF ES_NotImproved(Val(self.best_loss), val_loss, self.min_delta)
    THEN ES_OnNotImproved(self)
  ELSE self

EarlyStoppingCall ==
  /\ unit = "EarlyStopping"
  /\ Len(es_calls) < MaxCalls
  /\ \E val_loss \in Losses :
       /\ es' = ES_call(es, val_loss)
       /\ es_calls' = Append(es_calls, [val_loss |-> val_loss, best_loss |-> es.best_loss])
  /\ UNCHANGED <<unit, esu_vars, val_vars>>

\* ------------------------------- EarlyStoppingUnlearning (checkpointing)

\* [encoder, regressor, domain_predictor] = models, in the order they are saved
Components == <<"encoder", "regressor", "domain_predictor">>
ComponentSet == {Components[i] : i \in 1..Len(Components)}

\* What one torch.save call may do: return, or raise (an unwritable path, a full
\* disk).  io_error names the component whose torch.save raises in this call of
\* save_checkpoint, if any: after the first raise nothing else runs.
IoErrors == ComponentSet \cup {"none"}

\* EarlyStoppingUnlearning.__init__
ESU_init(patience) ==
  [patience |-> patience, counter |-> 0, best_score |-> None,
   early_stop |-> FALSE, val_loss_min |-> "Inf"]

RECURSIVE SaveFrom(_, _, _, _)
\* lines 190-195, from the i-th component on: if PATH: torch.save(...).  An
\* exception of torch.save is not caught: it ends save_checkpoint at once.
SaveFrom(i, paths, io_error, acc) ==
  IF i > Len(Components) THEN acc
  ELSE LET c == Components[i] IN
    IF ~paths[c] THEN SaveFrom(i + 1, paths, io_error, acc)
    ELSE IF io_error = c
      THEN [acc EXCEPT !.attempted = @ \cup {c}, !.raised = TRUE]
    ELSE SaveFrom(i + 1, paths, io_error,
                  [acc EXCEPT !.attempted = @ \cup {c}, !.saved = @ \cup {c}])

\* EarlyStoppingUnlearning.save_checkpoint: which torch.save calls were made
\* (attempted), which returned (saved), and whether the call raised
save_checkpoint(val_loss, paths, io_error) ==
  SaveFrom(1, paths, io_error,
           [val_loss |-> val_loss, attempted |-> {}, saved |-> {}, raised |-> FALSE])

\* ESU_Score without the negation
ESU_Score_pos(val_loss) == val_loss

\* line 169: score = -val_loss
ESU_Score(val_loss) == 0 - val_loss

\* ESU_Worse with <= written for <
ESU_Worse_le(score, best_score) == score <= best_score

\* line 174: elif score < self.best_score
ESU_Worse(score, best_score) == score < best_score

\* EarlyStoppingUnlearning.__call__: <<attributes after the call, checkpoint
\* after the call, whether save_checkpoint was called, whether the call raised>>
ESU_call(self, ckpt, val_loss, paths, io_error) ==
  LET score == ESU_Score(val_loss)
      saved == save_checkpoint(val_loss, paths, io_error)
  IN
  IF self.best_score = None
    THEN \* lines 172-173
         <<[self EXCEPT !.best_score = Some(score)], Some(saved), TRUE, saved.raised>>
  ELSE IF ESU_Worse(score, Val(self.best_score))
    THEN \* lines 175-178
         <<[self EXCEPT !.counter = self.counter + 1,
                        !.early_stop = IF Exhausted(self.counter + 1, self.patience)
                                       THEN TRUE ELSE self.early_stop],
           ckpt, FALSE, FALSE>>
  ELSE \* lines 180-182: counter = 0 is after save_checkpoint, and is skipped when it raises
       <<[self EXCEPT !.best_score = Some(score),
                      !.counter = IF saved.raised THEN self.counter ELSE 0],
         Some(saved), TRUE, saved.raised>>

EarlyStoppingUnlearningCall ==
  /\ unit = "EarlyStoppingUnlearning"
  /\ Len(esu_calls) < MaxCalls
  /\ \E val_loss \in Losses, io_error \in IoErrors :
       LET r == ESU_call(esu, checkpoint, val_loss, PTHS, io_error) IN
       /\ esu' = r[1]
       /\ checkpoint' = r[2]
       /\ esu_calls' = Append(esu_calls, [val_loss |-> val_loss, best_score |-> esu.best_score])
       /\ esu_ret' = [checkpointed |-> r[3], raised |-> r[4]]
  /\ UNCHANGED <<unit, es_vars, PTHS, val_vars>>

\* ------------------------------------------------------------ validation

\* A float: NaN, or the exact fraction num/den (den > 0)
F(num, den) == [nan |-> FALSE, num |-> num, den |-> den]
NaN == [nan |-> TRUE, num |-> 0, den |-> 1]

\* float + float: NaN if either is NaN
FAdd(a, b) ==
  IF a.nan \/ b.nan THEN NaN
  ELSE IF a.den = b.den THEN F(a.num + b.num, a.den)
  ELSE F(a.num * b.den + b.num * a.den, a.den * b.den)

\* TrueDiv that yields 0.0 for a zero divisor instead of raising
TrueDiv_guarded(a, n) ==
  IF n = 0 THEN [raises |-> FALSE, value |-> F(0, 1)]
  ELSE [raises |-> FALSE, value |-> IF a.nan THEN NaN ELSE F(a.num, a.den * n)]

\* Python's float / int: raises ZeroDivisionError when the int is 0
TrueDiv(a, n) ==
  IF n = 0 THEN [raises |-> TRUE, value |-> NaN]
  ELSE [raises |-> FALSE, value |-> IF a.nan THEN NaN ELSE F(a.num, a.den * n)]

\* The out_channels the model is run with
ChannelCounts == {1, 2}

\* What dice_score may return for one batch (or one channel of it): - dice, on
\* the grid {-1, 0}
DiceLosses == {0 - 1, 0}

\* What a metric function may return for one sample (or one channel of it)
MetricVals == {NaN, F(0 - 1, 1), F(0, 1), F(1, 1)}

\* The metric_fns argument.  A sample is the sequence of its per-channel data
\* (one entry when one_hot is off); "channel_value" returns the datum of the
\* channel it is given, "const_one" returns 1.0 whatever it is given.
metric_fns == <<"const_one", "channel_value">>

metric_fn(name, datum) == IF name = "const_one" THEN F(1, 1) ELSE datum

\* line 123: dict_key = 'val_{}'.format(metric_fn.__name__)
dict_key(name) == <<"val_", name>>

RECURSIVE ChannelSum(_, _, _)
\* lines 116-118: sum = 0; for k in range(out_channels): sum += metric_fn(...)
ChannelSum(name, sample, k) ==
  IF k = 0 THEN F(0, 1)
  ELSE FAdd(ChannelSum(name, sample, k - 1), metric_fn(name, sample[k]))

\* lines 115-122: res for one sample (out_channels >= 1)
SampleRes(name, sample, oh, channels) ==
  IF oh THEN TrueDiv(ChannelSum(name, sample, channels), channels).value
  ELSE metric_fn(name, sample[1])

\* Dropped without the `not res` test
Dropped_nan_only(res) == res.nan

\* line 124: if not res or np.isnan(res): continue
Dropped(res) == (~res.nan /\ res.num = 0) \/ res.nan

\* result_dict[key], the empty list when the key is absent
DictGet(d, key) ==
  IF \E i \in 1..Len(d) : d[i][1] = key
  THEN (d[CHOOSE i \in 1..Len(d) : d[i][1] = key])[2]
  ELSE <<>>

\* line 126: result_dict[dict_key].append(res), a new key going last
DictAppend(d, key, res) ==
  IF \E i \in 1..Len(d) : d[i][1] = key
  THEN [i \in 1..Len(d) |-> IF d[i][1] = key THEN <<key, Append(d[i][2], res)>> ELSE d[i]]
  ELSE Append(d, <<key, <<res>>>>)

RECURSIVE ForSamples(_, _, _, _, _, _)
\* lines 114-126 for one metric_fn: the samples of the batch from the i-th on
ForSamples(d, name, batch, i, oh, channels) ==
  IF i > Len(batch) THEN d
  ELSE LET res == SampleRes(name, batch[i], oh, channels) IN
       ForSamples(IF Dropped(res) THEN d ELSE DictAppend(d, dict_key(name), res),
                  name, batch, i + 1, oh, channels)

RECURSIVE ForMetrics(_, _, _, _, _)
\* lines 113-126: the metric functions from the j-th on
ForMetrics(d, j, batch, oh, channels) ==
  IF j > Len(metric_fns) THEN d
  ELSE ForMetrics(ForSamples(d, metric_fns[j], batch, 1, oh, channels),
                  j + 1, batch, oh, channels)

RECURSIVE SumSeq(_, _)
\* xs[1] + ... + xs[i]
SumSeq(xs, i) == IF i = 0 THEN 0 ELSE SumSeq(xs, i - 1) + xs[i]

\* lines 101-106: dice_loss of a batch from the dice_score of each channel
\* (one_hot) or of the whole batch
BatchDice(dice, oh, channels) ==
  IF oh THEN TrueDiv(F(SumSeq(dice, channels), 1), channels).value
  ELSE F(dice[1], 1)

\* np.mean and np.std of a list of floats of one denominator: the mean, and the
\* variance the std is the square root of
Mean(xs) == F(SumSeq([i \in 1..Len(xs) |-> xs[i].num], Len(xs)), xs[1].den * Len(xs))
Variance(xs) ==
  LET n == Len(xs)
      s1 == SumSeq([i \in 1..n |-> xs[i].num], n)
      s2 == SumSeq([i \in 1..n |-> xs[i].num * xs[i].num], n)
  IN F(n * s2 - s1 * s1, n * n * xs[1].den * xs[1].den)

\* lines 143-151: metrics_dict, as <<key, value>> pairs in the order of result_dict
metrics_dict(d) ==
  [i \in 1..(2 * Len(d)) |->
     LET e == d[(i + 1) \div 2] IN
     IF i % 2 = 1 THEN <<<<e[1], "_mean">>, Mean(e[2])>>
     ELSE <<<<e[1], "_std">>, [sqrt_of |-> Variance(e[2])]>>]

\* The channels a sample (and a batch's dice scores) has: out_channels with
\* one_hot, else the single channel that squeeze(axis=0) removes
Channels(oh, channels) == IF oh THEN channels ELSE 1

\* One pass of the loop of lines 89-139: the loader yields a batch
ValidationBatch ==
  /\ unit = "validation"
  /\ validation_pc = "loop"
  /\ num_samples < MaxSamples
  /\ \E n \in 1..(MaxSamples - num_samples) :
     \E batch \in [1..n -> [1..Channels(one_hot, out_channels) -> MetricVals]],
        dice \in [1..Channels(one_hot, out_channels) -> DiceLosses] :
       /\ loader' = Append(loader, batch)
       /\ validation_val_loss' = FAdd(validation_val_loss, BatchDice(dice, one_hot, out_channels))
       /\ result_dict' = ForMetrics(result_dict, 1, batch, one_hot, out_channels)
       /\ num_samples' = num_samples + Len(batch)
       /\ num_steps' = num_steps + 1
  /\ UNCHANGED <<unit, es_vars, esu_vars, validation_pc, one_hot, out_channels,
                 storage, writer, ret>>

\* The loader is exhausted: lines 141-155
ValidationFinish ==
  /\ unit = "validation"
  /\ validation_pc = "loop"
  /\ LET val_loss_avg == TrueDiv(validation_val_loss, num_steps) IN
     IF val_loss_avg.raises
     THEN /\ validation_pc' = "raised"
          /\ UNCHANGED <<storage, writer, ret>>
     ELSE /\ validation_pc' = "returned"
          /\ storage' = [i \in 1..Len(result_dict) |-> result_dict[i]]
                          \o << <<"metrics", metrics_dict(result_dict)>> >>
          /\ writer' = << <<"losses", val_loss_avg.value>>,
                          <<"metrics", metrics_dict(result_dict)>> >>
          /\ ret' = Some(val_loss_avg.value)
  /\ UNCHANGED <<unit, es_vars, esu_vars, one_hot, out_channels, loader, validation_val_loss,
                 num_samples, num_steps, result_dict>>

\* ------------------------------------------------------------------ spec
Init ==
  /\ unit \in Units
  /\ \E p \in Patiences, d \in MinDeltas :
       es = IF unit = "EarlyStopping" THEN ES_init(p, d) ELSE ES_init(5, 0)
  /\ es_calls = <<>>
  /\ \E p \in Patiences :
       esu = IF unit = "EarlyStoppingUnlearning" THEN ESU_init(p) ELSE ESU_init(5)
  /\ esu_calls = <<>>
  /\ esu_ret = [checkpointed |-> FALSE, raised |-> FALSE]
  /\ PTHS \in [ComponentSet -> BOOLEAN]
  /\ unit # "EarlyStoppingUnlearning" => PTHS = [c \in ComponentSet |-> TRUE]
  /\ checkpoint = None
  /\ validation_pc = "loop"
  /\ one_hot \in BOOLEAN
  /\ out_channels \in ChannelCounts
  /\ unit # "validation" => (one_hot = FALSE /\ out_channels = 1)
  /\ loader = <<>>
  /\ validation_val_loss = F(0, 1)
  /\ num_samples = 0
  /\ num_steps = 0
  /\ result_dict = <<>>
  /\ storage = <<>>
  /\ writer = <<>>
  /\ ret = None

Next ==
  \/ EarlyStoppingCall
  \/ EarlyStoppingUnlearningCall
  \/ ValidationBatch
  \/ ValidationFinish

Spec == Init /\ [][Next]_vars

\* ------------------------------------------- what the formulas talk about

\* The step is a call of EarlyStopping.__call__ / EarlyStoppingUnlearning.__call__
ES_Step == Len(es_calls') = Len(es_calls) + 1
ESU_Step == Len(esu_calls') = Len(esu_calls) + 1

\* The val_loss of the last call logged
ES_LastLoss == es_calls[Len(es_calls)].val_loss
ESU_LastLoss == esu_calls[Len(esu_calls)].val_loss

SetMax(S) == CHOOSE x \in S : \A y \in S : y <= x
SetMin(S) == CHOOSE x \in S : \A y \in S : x <= y

\* Call i of the simple monitor found a baseline and best_loss - val_loss < min_delta
ES_NonImprovingAt(i) ==
  /\ es_calls[i].best_loss # None
  /\ Val(es_calls[i].best_loss) - es_calls[i].val_loss < es.min_delta

\* Call i of the simple monitor found a baseline and best_loss - val_loss > min_delta
ES_ImprovingAt(i) ==
  /\ es_calls[i].best_loss # None
  /\ Val(es_calls[i].best_loss) - es_calls[i].val_loss > es.min_delta

\* Call i of the checkpointing monitor found a baseline and a score below it
ESU_WorseningAt(i) ==
  /\ esu_calls[i].best_score # None
  /\ 0 - esu_calls[i].val_loss < Val(esu_calls[i].best_score)

\* ------------------------------------------------------------------ C1
\* C1 (as claimed): with min_delta = 0 and patience p, a constant loss sequence
\* has early_stop true from call number p+1 on, and not before.
C1_FlatSequenceStops ==
  ( /\ unit = "EarlyStopping"
    /\ es.min_delta = 0
    /\ es_calls # <<>>
    /\ \A i \in 1..Len(es_calls) : es_calls[i].val_loss = es_calls[1].val_loss )
  => (es.early_stop <=> Len(es_calls) >= es.patience + 1)

\* ------------------------------------------------------------------ C2
\* C2: an update of the checkpointing monitor calls save_checkpoint if and only
\* if it is the first update or its score -val_loss is >= the best_score it
\* found; an update with a lower score calls no save_checkpoint and leaves
\* best_score (and the last checkpoint) as they were.
C2_CheckpointIffFirstOrNotWorse ==
  [][ ESU_Step =>
        LET v == ESU_LastLoss'
            first == esu.best_score = None
        IN /\ esu_ret'.checkpointed <=> (first \/ 0 - v >= Val(esu.best_score))
           /\ esu_ret'.checkpointed =>
                (checkpoint' # None /\ Val(checkpoint').val_loss = v)
           /\ (~first /\ 0 - v < Val(esu.best_score)) =>
                /\ ~esu_ret'.checkpointed
                /\ esu'.best_score = esu.best_score
                /\ checkpoint' = checkpoint ]_vars

\* A tie (score = best_score) on a later update was checkpointed, and an
\* earlier update with a lower score was not.
C2_Witness ==
  /\ Len(esu_calls) >= 3
  /\ ESU_WorseningAt(2)
  /\ esu_calls[Len(esu_calls)].best_score = Some(0 - ESU_LastLoss)
  /\ esu_ret.checkpointed
  /\ ~esu_ret.raised

\* ------------------------------------------------------------------ C3
\* C3 (as claimed): an update with score < best_score adds exactly 1 to counter,
\* an update with score >= best_score sets counter to 0, and early_stop is true
\* exactly once some p consecutive updates were all worsening.
C3_CounterAndStopTiming ==
  [][ ESU_Step =>
        LET v == ESU_LastLoss'
            first == esu.best_score = None
        IN /\ (~first /\ 0 - v < Val(esu.best_score)) => esu'.counter = esu.counter + 1
           /\ (~first /\ 0 - v >= Val(esu.best_score)) => esu'.counter = 0
           /\ ( esu.early_stop <=>
                \E k \in 1..Len(esu_calls) :
                  /\ k >= esu.patience
                  /\ \A i \in (k - esu.patience + 1)..k : ESU_WorseningAt(i) )' ]_vars

\* ------------------------------------------------------------------ C4
\* C4 (as claimed): when the torch.save of one component raises, the torch.save
\* of every component with a non-empty path has still been attempted.
C4_OthersStillAttempted ==
  (checkpoint # None /\ Val(checkpoint).raised)
  => \A c \in ComponentSet : PTHS[c] => c \in Val(checkpoint).attempted

\* ------------------------------------------------------------------ C5
\* C5 (as claimed): in both monitors early_stop is true exactly when
\* counter >= patience, and early_stop never goes back to false.
C5_StopIffExhausted ==
  [][ /\ (es.early_stop <=> es.counter >= es.patience)'
      /\ (esu.early_stop <=> esu.counter >= esu.patience)'
      /\ es.early_stop => es'.early_stop
      /\ esu.early_stop => esu'.early_stop ]_vars

\* C5 (amended): in the simple monitor early_stop is true exactly when
\* counter >= patience; in the checkpointing monitor counter >= patience implies
\* early_stop and early_stop turns true only on an update that leaves
\* counter >= patience, but a later update with score >= best_score may reset
\* counter while early_stop stays true; in both, early_stop never goes back
\* to false.
C5_Amended ==
  [][ /\ (es.early_stop <=> es.counter >= es.patience)'
      /\ (esu.counter >= esu.patience => esu.early_stop)'
      /\ (~esu.early_stop /\ esu'.early_stop) => esu'.counter >= esu.patience
      /\ es.early_stop => es'.early_stop
      /\ esu.early_stop => esu'.early_stop ]_vars

\* The checkpointing monitor has stopped and a later update has reset its counter.
C5_Witness ==
  /\ esu.early_stop
  /\ esu.counter < esu.patience
  /\ ~esu_ret.raised

\* ------------------------------------------------------------------ C6
\* C6: when validation ends after zero batches (num_steps = 0) it has raised
\* the ZeroDivisionError of val_loss / num_steps: it returned no value, made no
\* np.save call and no writer.add_scalars call.
C6_EmptyStreamRaises ==
  (unit = "validation" /\ validation_pc # "loop" /\ loader = <<>>)
  => /\ num_steps = 0
     /\ validation_pc = "raised"
     /\ ret = None
     /\ storage = <<>>
     /\ writer = <<>>

\* validation has ended on an empty loader.
C6_Witness ==
  /\ unit = "validation"
  /\ validation_pc # "loop"
  /\ loader = <<>>

\* ------------------------------------------------------------------ C7
RECURSIVE Flatten(_)
\* The samples of a sequence of batches, in stream order
Flatten(batches) ==
  IF batches = <<>> THEN <<>>
  ELSE Flatten(SubSeq(batches, 1, Len(batches) - 1)) \o batches[Len(batches)]

RECURSIVE KeptResults(_, _)
\* The results of metric function name over the samples, in order, without
\* those that are NaN or zero
KeptResults(name, samples) ==
  IF samples = <<>> THEN <<>>
  ELSE LET res == SampleRes(name, samples[Len(samples)], one_hot, out_channels)
           before == KeptResults(name, SubSeq(samples, 1, Len(samples) - 1))
       IN IF res.nan \/ res.num = 0 THEN before ELSE Append(before, res)

\* C7: once the loader is exhausted, the list under "val_<metric name>" holds,
\* in stream order, exactly the results that are neither NaN nor zero, for
\* every metric function; for the metric that returns 1.0 for every sample its
\* length is the number of samples of all batches, and num_steps is the number
\* of batches.
C7_ResultsAreKeptSamples ==
  (unit = "validation" /\ validation_pc = "returned")
  => /\ \A j \in 1..Len(metric_fns) :
          DictGet(result_dict, dict_key(metric_fns[j]))
            = KeptResults(metric_fns[j], Flatten(loader))
     /\ Len(DictGet(result_dict, dict_key("const_one"))) = Len(Flatten(loader))
     /\ num_samples = Len(Flatten(loader))
     /\ num_steps = Len(loader)

\* Two batches were read; the first sample's result was dropped (NaN or zero)
\* and the second sample's was kept.
C7_Witness ==
  /\ unit = "validation"
  /\ validation_pc = "returned"
  /\ Len(loader) = 2
  /\ Len(DictGet(result_dict, dict_key("channel_value"))) = 1
  /\ Dropped(SampleRes("channel_value", loader[1][1], one_hot, out_channels))
  /\ Len(DictGet(result_dict, dict_key("const_one"))) = 2

C10_BestIsMaxAndCheckpointed ==
  esu_calls # <<>> =>
    LET fed == {esu_calls[i].val_loss : i \in 1..Len(esu_calls)} IN
    /\ esu.best_score = Some(SetMax({0 - v : v \in fed}))
    /\ checkpoint # None
    /\ Val(checkpoint).val_loss = SetMin(fed)

\* The monitor had stopped, and a later update brought a new minimum.
C10_Witness ==
  /\ Len(esu_calls) >= 3
  /\ esu.early_stop
  /\ ESU_WorseningAt(2)
  /\ \A i \in 1..(Len(esu_calls) - 1) : ESU_LastLoss < esu_calls[i].val_loss
  /\ esu.best_score = Some(0 - ESU_LastLoss)
====
